---------------------------- MODULE Spec2Model ----------------------------
(***************************************************************************)
(* A model of the frame scheduler of term-animation-rs:                    *)
(* Animation (src/src/animation.rs) and Entity (src/src/entity.rs).        *)
(*                                                                         *)
(* The entity mapping is a function from names to entity records.  A       *)
(* HashMap or HashSet is iterated in an order the program does not         *)
(* control: every loop over one takes its elements in any order.  A stored *)
(* closure is a flag (present or not).  What a behaviour callback returns  *)
(* is any value of CallbackResults; a collision handler and a death        *)
(* callback leave their entity as it is; each closure may call add_entity  *)
(* on the scheduler it is given.  A panic (todo!, panic!) ends the         *)
(* process: pc = "panic" and no step follows.                              *)
(***************************************************************************)
EXTENDS Integers, Sequences, FiniteSets, TLC

VARIABLES
    entities,        \* Animation.entities: name -> Entity
    physical_count,  \* Animation.physical_count
    pc,              \* position inside animate(); "idle" between calls
    pulled,          \* do_callbacks: the local map `entities`
    all_ents,        \* do_callbacks: the local `all_ents`
    todo,            \* do_callbacks: names the for loop has not visited yet
    deleted,         \* animate / do_callbacks: the DeletedList
    collisions,      \* animate: the local `collisions`
    following,       \* move_followers: `following_entities` not processed yet
    frameNo,         \* history: animate() calls started
    nextId,          \* history: add_entity calls made
    added,           \* history: id -> the entity as given to add_entity, and in which frame
    removed,         \* history: entities remove_deleted_entries removed in this call
    deathCalls,      \* history: id -> death callback invocations, and what they saw
    collCalls,       \* history: <<id, other id>> -> collision handler invocations in this call
    detected,        \* history: the mapping find_collisions looked at in this call
    preFollow,       \* history: the mapping move_followers started from in this call
    cbCalls,         \* history: id -> behaviour callback invocations in this call
    view,            \* history: what the closure called last could reach
    call             \* history: the Entity method called last, on what, and its result

vars == <<entities, physical_count, pc, pulled, all_ents, todo, deleted,
          collisions, following, frameNo, nextId, added, removed, deathCalls,
          collCalls, detected, preFollow, cbCalls, view, call>>

progVars == <<entities, physical_count, pulled, all_ents, todo, deleted,
              collisions, following>>
histVars == <<frameNo, nextId, added, removed, deathCalls, collCalls,
              detected, preFollow, cbCalls, view, call>>

(***************************************************************************)
(* Bounds of the model.                                                    *)
(***************************************************************************)
MaxFrames == 2      \* animate() calls in one behaviour
MaxAdds == 3        \* add_entity calls in one behaviour

(***************************************************************************)
(* Program constants.                                                      *)
(***************************************************************************)
Width == 80         \* Animation.width when the terminal size is unknown
Height == 24        \* Animation.height when the terminal size is unknown

(***************************************************************************)
(* Option<T>: None is the empty sequence, Some(v) the one-element one.     *)
(***************************************************************************)
None == <<>>
Some(v) == <<v>>
IsSome(o) == o # <<>>
Unwrap(o) == o[1]

EmptyMap == [n \in {} |-> 0]
RemoveKey(m, k) == [n \in DOMAIN m \ {k} |-> m[n]]
Insert(m, k, v) == [n \in DOMAIN m \cup {k} |-> IF n = k THEN v ELSE m[n]]

(***************************************************************************)
(* Entity::default(): the derived Default of struct Entity.  `frames` is   *)
(* the length of Entity.frames, `callback`, `coll_handler` and             *)
(* `death_callback` say whether the closure is there, `die_time` whether a *)
(* time is set.  `id` is history: the entity is the id[2]-th one added     *)
(* under the name id[1].                                                   *)
(***************************************************************************)
NoOffset == [x |-> None, y |-> None, z |-> None, frame |-> None]

DefaultEntity ==
    [name |-> "", id |-> <<"", 0>>,
     frames |-> 0, width |-> 0, height |-> 0,
     pos |-> [x |-> 0, y |-> 0, z |-> 0],
     physical |-> FALSE, depth |-> 0, coll_handler |-> FALSE,
     wrap |-> FALSE, callback |-> FALSE,
     follow_entity |-> None, follow_offset |-> NoOffset,
     current_frame |-> 0,
     die_offscreen |-> FALSE, die_time |-> FALSE, die_frame |-> None,
     death_callback |-> FALSE, die_entity |-> None]

(***************************************************************************)
(* Rust's % on signed integers truncates toward zero: the result has the   *)
(* sign of the dividend.                                                   *)
(***************************************************************************)
Rem(a, b) == IF a >= 0 THEN a % b ELSE -((-a) % b)

\* Entity::set_x
set_x(e, new_x, anim_width) ==
    [e EXCEPT !.pos.x =
        IF e.wrap
        THEN IF new_x >= anim_width \/ new_x < 0
             THEN Rem(new_x, anim_width)
             ELSE new_x
        ELSE new_x]

\* Entity::set_y
set_y(e, new_y, anim_height) ==
    [e EXCEPT !.pos.y =
        IF e.wrap
        THEN IF new_y >= anim_height \/ new_y < 0
             THEN Rem(new_y, anim_height)
             ELSE new_y
        ELSE new_y]

\* Entity::set_z
set_z(e, new_z) == [e EXCEPT !.pos.z = new_z]

\* Entity::set_frame: whether the call returns (it panics otherwise) ...
set_frame_ok(e, new_frame) == new_frame < e.frames
\* ... and the entity when it does.
set_frame(e, new_frame) == [e EXCEPT !.current_frame = new_frame]

\* Entity::intersects, with its inner fn coord_intersects
coord_intersects(my_coord, other_coord, my_d3, other_d3) ==
    \/ other_coord <= my_coord /\ my_coord < other_coord + other_d3
    \/ my_coord <= other_coord /\ other_coord < my_coord + my_d3

\* a slip: x is tested with the width and y with the height
intersects_straight(self, other) ==
    /\ coord_intersects(self.pos.x, other.pos.x, self.width, other.width)
    /\ coord_intersects(self.pos.y, other.pos.y, self.height, other.height)
    /\ coord_intersects(self.pos.z, other.pos.z, self.depth, other.depth)

intersects(self, other) ==
    /\ coord_intersects(self.pos.x, other.pos.x, self.height, other.height)
    /\ coord_intersects(self.pos.y, other.pos.y, self.width, other.width)
    /\ coord_intersects(self.pos.z, other.pos.z, self.depth, other.depth)


(***************************************************************************)
(* The orders a HashMap over the keys S may be iterated in.                *)
(***************************************************************************)
Orders(S) ==
    {o \in [1..Cardinality(S) -> S] : \A i, j \in DOMAIN o : i # j => o[i] # o[j]}

(***************************************************************************)
(* Animation::find_collisions.  `order` is the order self.entities.values()*)
(* yields the entities in (the map is not changed between the two loops,   *)
(* so both see the same order).  A Collision is the pair <<me, other>>.    *)
(***************************************************************************)
\* a slip: the pair is looked for in one orientation only
already_there_oneway(coll, me, other) ==
    \E c \in coll : c[1] = me.name /\ c[2] = other.name

\* a slip: a pair counts as there as soon as one of the two names is in a pair
already_there_any(coll, me, other) ==
    \E c \in coll : \/ c[1] = me.name \/ c[2] = other.name
                    \/ c[1] = other.name \/ c[2] = me.name

already_there(coll, me, other) ==
    \E c \in coll : \/ c[1] = me.name /\ c[2] = other.name
                    \/ c[1] = other.name /\ c[2] = me.name

RECURSIVE InnerLoop(_, _, _, _, _)
InnerLoop(ents, order, me, j, coll) ==
    IF j > Len(order) THEN coll
    ELSE LET other == ents[order[j]]
             next == IF other.name = me.name THEN coll
                     ELSE IF intersects(me, other) /\ ~already_there(coll, me, other)
                          THEN coll \cup {<<me.name, other.name>>}
                          ELSE coll
         IN  InnerLoop(ents, order, me, j + 1, next)

RECURSIVE OuterLoop(_, _, _, _)
OuterLoop(ents, order, i, coll) ==
    IF i > Len(order) THEN coll
    ELSE LET me == ents[order[i]]
         IN  OuterLoop(ents, order, i + 1,
                       IF ~me.physical THEN coll
                       ELSE InnerLoop(ents, order, me, 1, coll))

find_collisions(ents, order) == OuterLoop(ents, order, 1, {})

(***************************************************************************)
(* Animation::add_entity, as a change of the mapping and of the counter.   *)
(***************************************************************************)
add_entity_map(ents, e) == Insert(ents, e.name, e)
\* a slip: the counter is never incremented
add_entity_count_never(count, e) == count

add_entity_count(count, e) == IF e.physical THEN count + 1 ELSE count

(***************************************************************************)
(* What a closure does with the &mut Animation it is given: nothing, or    *)
(* one add_entity call with an entity of T.                                *)
(***************************************************************************)
Adds(T) == {None} \cup (IF nextId < MaxAdds THEN {Some(t) : t \in T} ELSE {})

Generation(name) == Cardinality({i \in DOMAIN added : i[1] = name})
Stamp(t) == [t EXCEPT !.id = <<t.name, Generation(t.name) + 1>>]

MapAfter(ents, a) ==
    IF IsSome(a) THEN add_entity_map(ents, Stamp(Unwrap(a))) ELSE ents
CountAfter(count, a) ==
    IF IsSome(a) THEN add_entity_count(count, Stamp(Unwrap(a))) ELSE count
AddedAfter(a) ==
    IF IsSome(a)
    THEN Insert(added, Stamp(Unwrap(a)).id, [ent |-> Stamp(Unwrap(a)), at |-> frameNo])
    ELSE added
NextIdAfter(a) == IF IsSome(a) THEN nextId + 1 ELSE nextId

(***************************************************************************)
(* The values a behaviour callback returns (struct CallbackResult).        *)
(***************************************************************************)
NoResult == [new_x |-> None, new_y |-> None, new_z |-> None, new_frame |-> None]

CallbackResults ==
    {NoResult,
     [NoResult EXCEPT !.new_x = Some(-1)],
     [NoResult EXCEPT !.new_x = Some(Width)],
     [NoResult EXCEPT !.new_y = Some(3), !.new_z = Some(1)],
     [NoResult EXCEPT !.new_frame = Some(1)],
     [NoResult EXCEPT !.new_frame = Some(2)]}

(***************************************************************************)
(* do_callbacks, one entity: the death checks ...                          *)
(***************************************************************************)
tick(e) ==
    IF IsSome(e.die_frame)
    THEN [e EXCEPT !.die_frame = Some(Unwrap(e.die_frame) - 1)]
    ELSE e

\* a slip: the countdown has to pass zero
dies_by_frame_late(e) == IsSome(e.die_frame) /\ Unwrap(e.die_frame) < 0

dies_by_frame(e) == IsSome(e.die_frame) /\ Unwrap(e.die_frame) <= 0

dies_by_entity(e, all, del) ==
    /\ IsSome(e.die_entity)
    /\ \/ Unwrap(e.die_entity) \notin all
       \/ Unwrap(e.die_entity) \in del

dies_offscreen(e) ==
    /\ e.die_offscreen
    /\ \/ e.pos.x >= Width
       \/ e.pos.y >= Height
       \/ e.pos.x < -e.width
       \/ e.pos.y < -e.height

marked_dead(e, all, del) ==
    dies_by_frame(e) \/ dies_by_entity(e, all, del) \/ dies_offscreen(e)

(***************************************************************************)
(* ... and the callback's result applied through the setters.              *)
(***************************************************************************)
moved(e, res) ==
    LET e1 == IF IsSome(res.new_x) THEN set_x(e, Unwrap(res.new_x), Width) ELSE e
        e2 == IF IsSome(res.new_y) THEN set_y(e1, Unwrap(res.new_y), Height) ELSE e1
    IN  IF IsSome(res.new_z) THEN set_z(e2, Unwrap(res.new_z)) ELSE e2

\* entity.callback.take() ...
taken(e) == [e EXCEPT !.callback = FALSE]

\* a slip: the callback is not put back
restored_forgot(e) == e

\* ... and entity.callback = Some(callback)
restored(e) == [e EXCEPT !.callback = TRUE]

result_ok(e, res) ==
    IsSome(res.new_frame) => set_frame_ok(e, Unwrap(res.new_frame))

applied(e, res) ==
    IF IsSome(res.new_frame)
    THEN set_frame(moved(e, res), Unwrap(res.new_frame))
    ELSE moved(e, res)

(***************************************************************************)
(* The process aborts.                                                     *)
(***************************************************************************)
Panic == pc' = "panic" /\ UNCHANGED <<progVars, histVars>>

(***************************************************************************)
(* History: no closure has been called yet, no Entity method either.       *)
(***************************************************************************)
NoView == [kind |-> "none", self |-> {}, visible |-> {}, live |-> {}]
NoCall == [op |-> "none"]

Bump(f, k) == IF k \in DOMAIN f THEN [f EXCEPT ![k] = @ + 1] ELSE Insert(f, k, 1)


(***************************************************************************)
(* Animation::new, for what the scheduler reads of it.                     *)
(***************************************************************************)
Init ==
    /\ entities = EmptyMap
    /\ physical_count = 0
    /\ pc = "idle"
    /\ pulled = EmptyMap
    /\ all_ents = {}
    /\ todo = {}
    /\ deleted = {}
    /\ collisions = {}
    /\ following = {}
    /\ frameNo = 0
    /\ nextId = 0
    /\ added = EmptyMap
    /\ removed = {}
    /\ deathCalls = EmptyMap
    /\ collCalls = EmptyMap
    /\ detected = EmptyMap
    /\ preFollow = EmptyMap
    /\ cbCalls = EmptyMap
    /\ view = NoView
    /\ call = NoCall

(***************************************************************************)
(* add_entity, called by the program between two animate() calls, with an  *)
(* entity of T.                                                            *)
(***************************************************************************)
AddEntity(T) ==
    /\ pc = "idle"
    /\ \E a \in Adds(T) :
          /\ IsSome(a)
          /\ entities' = MapAfter(entities, a)
          /\ physical_count' = CountAfter(physical_count, a)
          /\ added' = AddedAfter(a)
          /\ nextId' = NextIdAfter(a)
    /\ UNCHANGED <<pc, pulled, all_ents, todo, deleted, collisions, following,
                   frameNo, removed, deathCalls, collCalls, detected, preFollow,
                   cbCalls, view, call>>

(***************************************************************************)
(* animate() is entered and do_callbacks pulls the entities out of         *)
(* self.entities (animation.rs 62-63, 81-85).                              *)
(***************************************************************************)
AnimateBegin ==
    /\ pc = "idle"
    /\ frameNo < MaxFrames
    /\ frameNo' = frameNo + 1
    /\ deleted' = {}
    /\ all_ents' = DOMAIN entities
    /\ pulled' = entities
    /\ entities' = EmptyMap
    /\ todo' = DOMAIN entities
    /\ pc' = "do_callbacks"
    /\ UNCHANGED <<physical_count, collisions, following, nextId, added,
                   removed, deathCalls, collCalls, detected, preFollow,
                   cbCalls, view, call>>

(***************************************************************************)
(* do_callbacks: one turn of the for loop (animation.rs 86-134).  A        *)
(* behaviour callback sees self.entities, which holds only what was added  *)
(* to it since the entities were pulled out.                               *)
(***************************************************************************)
DoCallbacksStep(T) ==
    /\ pc = "do_callbacks"
    /\ \E n \in todo :
        LET entity == tick(pulled[n]) IN
        IF pulled[n].die_time
        THEN Panic
        ELSE IF marked_dead(entity, all_ents, deleted)
        THEN /\ deleted' = deleted \cup {entity.name}
             /\ pulled' = [pulled EXCEPT ![n] = entity]
             /\ todo' = todo \ {n}
             /\ UNCHANGED <<entities, physical_count, pc, all_ents, collisions,
                            following, histVars>>
        ELSE IF entity.callback
        THEN \E res \in CallbackResults, a \in Adds(T) :
               IF result_ok(entity, res)
               THEN /\ pulled' = [pulled EXCEPT
                                ![n] = restored(applied(taken(entity), res))]
                    /\ todo' = todo \ {n}
                    /\ entities' = MapAfter(entities, a)
                    /\ physical_count' = CountAfter(physical_count, a)
                    /\ added' = AddedAfter(a)
                    /\ nextId' = NextIdAfter(a)
                    /\ cbCalls' = Bump(cbCalls, entity.id)
                    /\ view' = [kind |-> "behaviour", self |-> {n},
                                visible |-> DOMAIN entities,
                                live |-> DOMAIN pulled \cup DOMAIN entities]
                    /\ UNCHANGED <<pc, all_ents, deleted, collisions, following,
                                   frameNo, removed, deathCalls, collCalls,
                                   detected, preFollow, call>>
               ELSE Panic
        ELSE /\ pulled' = [pulled EXCEPT ![n] = entity]
             /\ todo' = todo \ {n}
             /\ UNCHANGED <<entities, physical_count, pc, all_ents, deleted,
                            collisions, following, histVars>>

(***************************************************************************)
(* do_callbacks returns: the entities are swapped back in, and what        *)
(* self.entities held meanwhile is dropped with the local map              *)
(* (animation.rs 136-137); animate goes on at line 64.                     *)
(***************************************************************************)
DoCallbacksReturn ==
    /\ pc = "do_callbacks"
    /\ todo = {}
    /\ entities' = pulled
    /\ pulled' = EmptyMap
    /\ all_ents' = {}
    /\ pc' = IF physical_count > 0 THEN "find_collisions" ELSE "remove_deleted_entries"
    /\ UNCHANGED <<physical_count, todo, deleted, collisions, following, histVars>>

(***************************************************************************)
(* find_collisions (animation.rs 65).                                      *)
(***************************************************************************)
FindCollisions ==
    /\ pc = "find_collisions"
    /\ \E order \in Orders(DOMAIN entities) :
          collisions' = find_collisions(entities, order)
    /\ detected' = entities
    /\ pc' = "collision_handlers"
    /\ UNCHANGED <<entities, physical_count, pulled, all_ents, todo, deleted,
                   following, frameNo, nextId, added, removed, deathCalls,
                   collCalls, preFollow, cbCalls, view, call>>

(***************************************************************************)
(* collision_handlers: one turn of the for loop (animation.rs 164-191).    *)
(* Each handler sees self.entities without the two entities of the pair.   *)
(***************************************************************************)
CollisionStep(T) ==
    /\ pc = "collision_handlers"
    /\ \E collision \in collisions :
        LET has1 == collision[1] \in DOMAIN entities
            has2 == collision[2] \in DOMAIN entities
            rest == RemoveKey(RemoveKey(entities, collision[1]), collision[2])
        IN
        IF has1 /\ has2
        THEN LET ent1 == entities[collision[1]]
                 ent2 == entities[collision[2]]
             IN  \E a \in (IF ent1.coll_handler \/ ent2.coll_handler
                           THEN Adds(T) ELSE {None}) :
                 LET calls1 == IF ent1.coll_handler
                               THEN Bump(collCalls, <<ent1.id, ent2.id>>)
                               ELSE collCalls
                     calls2 == IF ent2.coll_handler
                               THEN Bump(calls1, <<ent2.id, ent1.id>>)
                               ELSE calls1
                 IN  /\ entities' = Insert(Insert(MapAfter(rest, a),
                                                  collision[1], ent1),
                                           collision[2], ent2)
                     /\ physical_count' = CountAfter(physical_count, a)
                     /\ added' = AddedAfter(a)
                     /\ nextId' = NextIdAfter(a)
                     /\ collCalls' = calls2
                     /\ collisions' = collisions \ {collision}
                     /\ view' = IF ent1.coll_handler \/ ent2.coll_handler
                                THEN [kind |-> "collision",
                                      self |-> {collision[1], collision[2]},
                                      visible |-> DOMAIN rest,
                                      live |-> DOMAIN entities]
                                ELSE view
                     /\ UNCHANGED <<pc, pulled, all_ents, todo, deleted, following,
                                    frameNo, removed, deathCalls, detected, preFollow,
                                    cbCalls, call>>
        ELSE IF has1 \/ has2
        THEN /\ collisions' = collisions \ {collision}
             /\ UNCHANGED <<entities, physical_count, pc, pulled, all_ents, todo,
                            deleted, following, histVars>>
        ELSE Panic

(***************************************************************************)
(* collision_handlers returns (animation.rs 66-68).                        *)
(***************************************************************************)
CollisionHandlersReturn ==
    /\ pc = "collision_handlers"
    /\ collisions = {}
    /\ pc' = "remove_deleted_entries"
    /\ UNCHANGED <<progVars, histVars>>

(***************************************************************************)
(* remove_deleted_entries: one turn of the for loop (animation.rs          *)
(* 194-201).  The death callback sees self.entities after the removal.     *)
(***************************************************************************)
\* a slip: the callback runs on the mapping as it was before the removal
without_kept(ents, ent_name) == ents

without(ents, ent_name) == RemoveKey(ents, ent_name)

DeathCall(calls, id, sawSelf) ==
    IF id \in DOMAIN calls
    THEN [calls EXCEPT ![id] = [n |-> @.n + 1, sawSelf |-> @.sawSelf \/ sawSelf]]
    ELSE Insert(calls, id, [n |-> 1, sawSelf |-> sawSelf])

RemoveStep(T) ==
    /\ pc = "remove_deleted_entries"
    /\ \E ent_name \in deleted :
        /\ deleted' = deleted \ {ent_name}
        /\ IF ent_name \in DOMAIN entities
           THEN LET entity == entities[ent_name]
                    rest == without(entities, ent_name)
                IN  /\ removed' = removed \cup {entity}
                    /\ \E a \in (IF entity.death_callback THEN Adds(T) ELSE {None}) :
                          /\ entities' = MapAfter(rest, a)
                          /\ physical_count' = CountAfter(physical_count, a)
                          /\ added' = AddedAfter(a)
                          /\ nextId' = NextIdAfter(a)
                    /\ deathCalls' =
                          IF entity.death_callback
                          THEN DeathCall(deathCalls, entity.id, ent_name \in DOMAIN rest)
                          ELSE deathCalls
           ELSE UNCHANGED <<entities, physical_count, added, nextId, removed,
                            deathCalls>>
    /\ UNCHANGED <<pc, pulled, all_ents, todo, collisions, following, frameNo,
                   collCalls, detected, preFollow, cbCalls, view, call>>

(***************************************************************************)
(* remove_deleted_entries returns and move_followers collects the          *)
(* followers, each a clone with follow_entity taken out                    *)
(* (animation.rs 69, 204-212).                                             *)
(***************************************************************************)
following_entities(ents) ==
    {<<[ents[n] EXCEPT !.follow_entity = None], Unwrap(ents[n].follow_entity)>> :
        n \in {m \in DOMAIN ents : IsSome(ents[m].follow_entity)}}

MoveFollowersBegin ==
    /\ pc = "remove_deleted_entries"
    /\ deleted = {}
    /\ following' = following_entities(entities)
    /\ preFollow' = entities
    /\ pc' = "move_followers"
    /\ UNCHANGED <<entities, physical_count, pulled, all_ents, todo, deleted,
                   collisions, frameNo, nextId, added, removed, deathCalls,
                   collCalls, detected, cbCalls, view, call>>

(***************************************************************************)
(* move_followers: one turn of the for loop (animation.rs 213-234).        *)
(***************************************************************************)
follow_moved(follower, leader) ==
    LET off == follower.follow_offset
        f1 == IF IsSome(off.x)
              THEN set_x(follower, Unwrap(off.x) + leader.pos.x, Width)
              ELSE follower
        f2 == IF IsSome(off.y)
              THEN set_y(f1, Unwrap(off.y) + leader.pos.y, Height)
              ELSE f1
    IN  IF IsSome(off.z) THEN set_z(f2, Unwrap(off.z) + leader.pos.z) ELSE f2

follow_ok(follower, leader) ==
    IsSome(follower.follow_offset.frame) =>
        set_frame_ok(follower, Unwrap(follower.follow_offset.frame) + leader.current_frame)

followed(follower, leader) ==
    IF IsSome(follower.follow_offset.frame)
    THEN set_frame(follow_moved(follower, leader),
                   Unwrap(follower.follow_offset.frame) + leader.current_frame)
    ELSE follow_moved(follower, leader)

\* a slip: the follower goes back without its leader's name
put_back_unnamed(ents, follower, follow_entity_name) ==
    IF follower.name \in DOMAIN ents
    THEN [ents EXCEPT ![follower.name] = follower]
    ELSE ents

put_back(ents, follower, follow_entity_name) ==
    LET back == [follower EXCEPT !.follow_entity = Some(follow_entity_name)]
    IN  IF follower.name \in DOMAIN ents
        THEN [ents EXCEPT ![follower.name] = back]
        ELSE ents

MoveFollowersStep ==
    /\ pc = "move_followers"
    /\ \E f \in following :
        LET follower == f[1]
            follow_entity_name == f[2]
        IN
        IF follow_entity_name \in DOMAIN entities
        THEN LET leader == entities[follow_entity_name] IN
             IF follow_ok(follower, leader)
             THEN /\ entities' = put_back(entities, followed(follower, leader),
                                          follow_entity_name)
                  /\ following' = following \ {f}
                  /\ UNCHANGED <<physical_count, pc, pulled, all_ents, todo,
                                 deleted, collisions, histVars>>
             ELSE Panic
        ELSE /\ entities' = put_back(entities, follower, follow_entity_name)
             /\ following' = following \ {f}
             /\ UNCHANGED <<physical_count, pc, pulled, all_ents, todo, deleted,
                            collisions, histVars>>

(***************************************************************************)
(* move_followers returns; build_screen, display_screen and                *)
(* track_framerate do nothing (animation.rs 70-74, 236-238).               *)
(***************************************************************************)
MoveFollowersReturn ==
    /\ pc = "move_followers"
    /\ following = {}
    /\ pc' = "done"
    /\ UNCHANGED <<progVars, histVars>>

(***************************************************************************)
(* animate() returns to its caller (animation.rs 75).                      *)
(***************************************************************************)
AnimateReturn ==
    /\ pc = "done"
    /\ pc' = "idle"
    /\ removed' = {}
    /\ collCalls' = EmptyMap
    /\ detected' = EmptyMap
    /\ preFollow' = EmptyMap
    /\ cbCalls' = EmptyMap
    /\ view' = NoView
    /\ UNCHANGED <<progVars, frameNo, nextId, added, deathCalls, call>>

(***************************************************************************)
(* One step of animate(), its closures adding entities of T.               *)
(***************************************************************************)
Animate(T) ==
    \/ AnimateBegin
    \/ DoCallbacksStep(T)
    \/ DoCallbacksReturn
    \/ FindCollisions
    \/ CollisionStep(T)
    \/ CollisionHandlersReturn
    \/ RemoveStep(T)
    \/ MoveFollowersBegin
    \/ MoveFollowersStep
    \/ MoveFollowersReturn
    \/ AnimateReturn


(***************************************************************************)
(* The entities the program adds.  Box is an entity of one frame, three    *)
(* cells high and wide and one deep, at (5, 5, 0).                         *)
(***************************************************************************)
Box(name) ==
    [DefaultEntity EXCEPT !.name = name, !.frames = 1, !.width = 3,
                          !.height = 3, !.depth = 1,
                          !.pos = [x |-> 5, y |-> 5, z |-> 0]]

Templates ==
    {[Box("a") EXCEPT !.physical = TRUE, !.coll_handler = TRUE,
                      !.death_callback = TRUE, !.die_frame = Some(1)],
     [Box("a") EXCEPT !.physical = TRUE, !.coll_handler = TRUE,
                      !.death_callback = TRUE, !.die_frame = Some(2)],
     [Box("a") EXCEPT !.physical = TRUE, !.coll_handler = TRUE,
                      !.callback = TRUE, !.wrap = TRUE, !.frames = 2],
     [Box("a") EXCEPT !.die_offscreen = TRUE, !.death_callback = TRUE,
                      !.callback = TRUE, !.pos.x = Width],
     [Box("b") EXCEPT !.physical = TRUE, !.coll_handler = TRUE,
                      !.death_callback = TRUE, !.die_entity = Some("a"),
                      !.follow_entity = Some("a"), !.follow_offset.x = Some(2)],
     [Box("b") EXCEPT !.coll_handler = TRUE,
                      !.follow_entity = Some("a"), !.follow_offset.x = Some(2)],
     [Box("c") EXCEPT !.physical = TRUE, !.coll_handler = TRUE,
                      !.follow_entity = Some("b"), !.follow_offset.x = Some(1),
                      !.follow_offset.z = Some(0)],
     [Box("c") EXCEPT !.death_callback = TRUE, !.die_entity = Some("b"),
                      !.follow_entity = Some("d"), !.follow_offset.y = Some(1),
                      !.follow_offset.frame = Some(1)]}

Next == AddEntity(Templates) \/ Animate({})

Spec == Init /\ [][Next]_vars

(***************************************************************************)
(* The same program with closures that call add_entity on the scheduler    *)
(* they are given: with a new name, or with the name of an entity that is  *)
(* already there.                                                          *)
(***************************************************************************)
CallbackTemplates ==
    {[Box("d") EXCEPT !.physical = TRUE, !.death_callback = TRUE,
                      !.die_frame = Some(1)],
     [Box("b") EXCEPT !.physical = TRUE]}

NextReentrant == AddEntity(Templates) \/ Animate(CallbackTemplates)

SpecReentrant == Init /\ [][NextReentrant]_vars


(***************************************************************************)
(* find_collisions on its own: any mapping of at most MaxEnts boxes, each  *)
(* physical or not, at an x of 0..MaxCoord and three cells high.           *)
(***************************************************************************)
MaxEnts == 3
MaxCoord == 3

NamePool == <<"a", "b", "c", "d", "e">>
Names == {NamePool[i] : i \in 1..MaxEnts}

PlacedBox(name, physical, x) ==
    [Box(name) EXCEPT !.id = <<name, 1>>, !.physical = physical, !.pos.x = x,
                      !.coll_handler = TRUE]

Mappings ==
    UNION {[S -> BOOLEAN \X (0..MaxCoord)] : S \in SUBSET Names}

InitFind ==
    /\ \E m \in Mappings :
          entities = [n \in DOMAIN m |-> PlacedBox(n, m[n][1], m[n][2])]
    /\ physical_count = Cardinality({n \in DOMAIN entities : entities[n].physical})
    /\ pc = "find_collisions"
    /\ pulled = EmptyMap
    /\ all_ents = {}
    /\ todo = {}
    /\ deleted = {}
    /\ collisions = {}
    /\ following = {}
    /\ frameNo = 1
    /\ nextId = Cardinality(DOMAIN entities)
    /\ added = [i \in {entities[n].id : n \in DOMAIN entities} |->
                   [ent |-> entities[i[1]], at |-> 0]]
    /\ removed = {}
    /\ deathCalls = EmptyMap
    /\ collCalls = EmptyMap
    /\ detected = EmptyMap
    /\ preFollow = EmptyMap
    /\ cbCalls = EmptyMap
    /\ view = NoView
    /\ call = NoCall

NextFind == FindCollisions

SpecFind == InitFind /\ [][NextFind]_vars

(***************************************************************************)
(* The setters of Entity on their own: the program calls set_x, set_y,     *)
(* set_z and set_frame, with the scheduler's width and height, on one      *)
(* entity of 1..MaxSprites frames that wraps or not.  The coordinates      *)
(* given are within MaxOver of 0 or of the bound, the frames 0..MaxSprites.*)
(***************************************************************************)
MaxSprites == 2
MaxOver == 1

Around(bound) == (-MaxOver..MaxOver) \cup ((bound - MaxOver)..(bound + MaxOver))

InitSetters ==
    /\ \E w \in BOOLEAN, k \in 1..MaxSprites :
          entities = [n \in {"a"} |->
                         [Box("a") EXCEPT !.id = <<"a", 1>>, !.wrap = w, !.frames = k]]
    /\ physical_count = 0
    /\ pc = "idle"
    /\ pulled = EmptyMap
    /\ all_ents = {}
    /\ todo = {}
    /\ deleted = {}
    /\ collisions = {}
    /\ following = {}
    /\ frameNo = 0
    /\ nextId = 1
    /\ added = [i \in {<<"a", 1>>} |-> [ent |-> entities["a"], at |-> 0]]
    /\ removed = {}
    /\ deathCalls = EmptyMap
    /\ collCalls = EmptyMap
    /\ detected = EmptyMap
    /\ preFollow = EmptyMap
    /\ cbCalls = EmptyMap
    /\ view = NoView
    /\ call = NoCall

Called(op, arg, before) == [op |-> op, arg |-> arg, before |-> before]

SetX ==
    /\ pc = "idle"
    /\ \E n \in DOMAIN entities, new_x \in Around(Width) :
          /\ entities' = [entities EXCEPT ![n] = set_x(entities[n], new_x, Width)]
          /\ call' = Called("set_x", new_x, entities[n].pos.x)
    /\ UNCHANGED <<physical_count, pc, pulled, all_ents, todo, deleted, collisions,
                   following, frameNo, nextId, added, removed, deathCalls,
                   collCalls, detected, preFollow, cbCalls, view>>

SetY ==
    /\ pc = "idle"
    /\ \E n \in DOMAIN entities, new_y \in Around(Height) :
          /\ entities' = [entities EXCEPT ![n] = set_y(entities[n], new_y, Height)]
          /\ call' = Called("set_y", new_y, entities[n].pos.y)
    /\ UNCHANGED <<physical_count, pc, pulled, all_ents, todo, deleted, collisions,
                   following, frameNo, nextId, added, removed, deathCalls,
                   collCalls, detected, preFollow, cbCalls, view>>

SetZ ==
    /\ pc = "idle"
    /\ \E n \in DOMAIN entities, new_z \in -MaxOver..MaxOver :
          /\ entities' = [entities EXCEPT ![n] = set_z(entities[n], new_z)]
          /\ call' = Called("set_z", new_z, entities[n].pos.z)
    /\ UNCHANGED <<physical_count, pc, pulled, all_ents, todo, deleted, collisions,
                   following, frameNo, nextId, added, removed, deathCalls,
                   collCalls, detected, preFollow, cbCalls, view>>

\* set_frame returns, or its todo! aborts the process
SetFrame ==
    /\ pc = "idle"
    /\ \E n \in DOMAIN entities, new_frame \in 0..MaxSprites :
          /\ call' = Called("set_frame", new_frame, entities[n].current_frame)
          /\ IF set_frame_ok(entities[n], new_frame)
             THEN /\ entities' = [entities EXCEPT
                                     ![n] = set_frame(entities[n], new_frame)]
                  /\ pc' = pc
             ELSE /\ pc' = "panic"
                  /\ UNCHANGED entities
    /\ UNCHANGED <<physical_count, pulled, all_ents, todo, deleted, collisions,
                   following, frameNo, nextId, added, removed, deathCalls,
                   collCalls, detected, preFollow, cbCalls, view>>

NextSetters == SetX \/ SetY \/ SetZ \/ SetFrame

SpecSetters == InitSetters /\ [][NextSetters]_vars

(***************************************************************************)
(* Entity::intersects on its own: box a at (1, 1, 1) and box b at          *)
(* coordinates of 0..MaxCoord, each extent of both of 0..MaxExt.  The      *)
(* program asks whether they intersect, and moves b by a's height on x,    *)
(* a's width on y and a's depth on z, as the test of entity.rs moves its   *)
(* second entity.                                                          *)
(***************************************************************************)
MaxExt == 2

Extents == (0..MaxExt) \X (0..MaxExt) \X (0..MaxExt)
Corners == (0..MaxCoord) \X (0..MaxCoord) \X (0..MaxCoord)

Sized(name, corner, ext) ==
    [Box(name) EXCEPT !.id = <<name, 1>>,
                      !.pos = [x |-> corner[1], y |-> corner[2], z |-> corner[3]],
                      !.height = ext[1], !.width = ext[2], !.depth = ext[3]]

InitGeom ==
    /\ \E ea \in Extents, eb \in Extents, cb \in Corners :
          entities = [n \in {"a", "b"} |->
                         IF n = "a" THEN Sized("a", <<1, 1, 1>>, ea)
                                    ELSE Sized("b", cb, eb)]
    /\ physical_count = 0
    /\ pc = "idle"
    /\ pulled = EmptyMap
    /\ all_ents = {}
    /\ todo = {}
    /\ deleted = {}
    /\ collisions = {}
    /\ following = {}
    /\ frameNo = 0
    /\ nextId = 2
    /\ added = [i \in {<<"a", 1>>, <<"b", 1>>} |-> [ent |-> entities[i[1]], at |-> 0]]
    /\ removed = {}
    /\ deathCalls = EmptyMap
    /\ collCalls = EmptyMap
    /\ detected = EmptyMap
    /\ preFollow = EmptyMap
    /\ cbCalls = EmptyMap
    /\ view = NoView
    /\ call = NoCall

\* a.intersects(&b)
Intersects ==
    /\ pc = "idle"
    /\ call.op = "none"
    /\ call' = [op |-> "intersects",
                result |-> intersects(entities["a"], entities["b"])]
    /\ UNCHANGED <<progVars, pc, frameNo, nextId, added, removed, deathCalls,
                   collCalls, detected, preFollow, cbCalls, view>>

translated(b, a) ==
    [b EXCEPT !.pos = [x |-> b.pos.x + a.height,
                       y |-> b.pos.y + a.width,
                       z |-> b.pos.z + a.depth]]

\* b.pos.x += a.height; b.pos.y += a.width; b.pos.z += a.depth;
\* a.intersects(&b) before and after
Translate ==
    /\ pc = "idle"
    /\ call.op \in {"none", "intersects"}
    /\ entities' = [entities EXCEPT !["b"] = translated(entities["b"], entities["a"])]
    /\ call' = [op |-> "translate",
                from |-> entities["b"].pos,
                was |-> intersects(entities["a"], entities["b"]),
                now |-> intersects(entities'["a"], entities'["b"])]
    /\ UNCHANGED <<physical_count, pc, pulled, all_ents, todo, deleted, collisions,
                   following, frameNo, nextId, added, removed, deathCalls,
                   collCalls, detected, preFollow, cbCalls, view>>

NextGeom == Intersects \/ Translate

SpecGeom == InitGeom /\ [][NextGeom]_vars

(***************************************************************************)
(*                          The claims                                     *)
(***************************************************************************)
Physical(ents) == {n \in DOMAIN ents : ents[n].physical}

Calls(k) == IF k \in DOMAIN collCalls THEN collCalls[k] ELSE 0

AfterCollisions == pc \in {"remove_deleted_entries", "move_followers", "done"}

\* The entity is still the one under its name, or death cleanup removed it:
\* no closure's add_entity has put another entity in its place.
Kept(id) ==
    \/ id[1] \in DOMAIN entities /\ entities[id[1]].id = id
    \/ \E r \in removed : r.id = id

\* C1: once the collision stage of an animate() call is over, for any two
\* distinct physical entities that intersected when find_collisions ran
\* and that no handler has taken out of the mapping, each entity's
\* collision handler has been invoked exactly once with the other as
\* argument (and not at all if it has no handler): two overlapping
\* entities with handlers make two invocations, not four.
C1_HandlersOncePerPair ==
    AfterCollisions =>
        \A m, o \in Physical(detected) :
            (/\ m # o
             /\ intersects(detected[m], detected[o])
             /\ Kept(detected[m].id) /\ Kept(detected[o].id)) =>
                Calls(<<detected[m].id, detected[o].id>>) =
                    (IF detected[m].coll_handler THEN 1 ELSE 0)

C1_TwoOverlappingTwoCalls ==
    /\ pc = "done"
    /\ DOMAIN detected = {"a", "b"}
    /\ Physical(detected) = {"a", "b"}
    /\ intersects(detected["a"], detected["b"])
    /\ detected["a"].coll_handler /\ detected["b"].coll_handler
    /\ DOMAIN collCalls = {<<detected["a"].id, detected["b"].id>>,
                           <<detected["b"].id, detected["a"].id>>}
    /\ \A k \in DOMAIN collCalls : collCalls[k] = 1

\* C2: when animate() returns, no entity is left in the mapping whose
\* die_entity names an entity that was marked dead and removed in that call.
C2_DiesWithReferent ==
    pc = "done" =>
        \A b \in DOMAIN entities :
            IsSome(entities[b].die_entity) =>
                ~\E r \in removed : r.name = Unwrap(entities[b].die_entity)

Present(id) == id[1] \in DOMAIN entities /\ entities[id[1]].id = id

Superseded(id) == \E j \in DOMAIN added : j[1] = id[1] /\ j[2] > id[2]

OnlyDieFrame(e) ==
    /\ IsSome(e.die_frame) /\ Unwrap(e.die_frame) >= 1
    /\ ~IsSome(e.die_entity) /\ ~e.die_offscreen /\ ~e.die_time

Age(id) == frameNo - added[id].at

\* C3: between animate() calls, an entity added with die_frame = n >= 1 and
\* no other death condition (and not replaced by a later add_entity of its
\* name) is in the mapping exactly while fewer than n animate() calls have
\* returned since it was added.
C3_DieFrameCountdown ==
    pc \in {"idle", "done"} =>
        \A id \in DOMAIN added :
            (OnlyDieFrame(added[id].ent) /\ ~Superseded(id)) =>
                (Present(id) <=> Age(id) < Unwrap(added[id].ent.die_frame))

C3_SecondFrameRemoves ==
    /\ pc = "done"
    /\ \E id \in DOMAIN added :
          /\ OnlyDieFrame(added[id].ent) /\ ~Superseded(id)
          /\ Unwrap(added[id].ent.die_frame) = 2
          /\ Age(id) = 2
          /\ ~Present(id)
          /\ \E r \in removed : r.id = id

\* C4: the death callback of an entity is never invoked twice, it has been
\* invoked once for every entity that death cleanup removed and that has
\* one, and no invocation found the entity's own name in the mapping.
C4_DeathCallbackOnce ==
    /\ \A id \in DOMAIN deathCalls :
          deathCalls[id].n = 1 /\ ~deathCalls[id].sawSelf
    /\ \A r \in removed : r.death_callback => r.id \in DOMAIN deathCalls

C4_DiedByReference ==
    /\ pc = "done"
    /\ \E r \in removed :
          /\ r.death_callback /\ IsSome(r.die_entity)
          /\ r.id \in DOMAIN deathCalls
          /\ deathCalls[r.id].n = 1

\* C5: no collision pair of an animate() call names an entity that the
\* behaviour-callback pass of that call marked dead, and no collision
\* handler runs for or against such an entity.
C5_OnlySurvivorsCollide ==
    /\ pc = "collision_handlers" =>
          \A c \in collisions : c[1] \notin deleted /\ c[2] \notin deleted
    /\ \A k \in DOMAIN collCalls :
          ~\E r \in removed : r.id = k[1] \/ r.id = k[2]

\* C6: no pair find_collisions returns names a non-physical entity, and no
\* collision handler of a non-physical entity is invoked.
C6_NoNonPhysicalInPairs ==
    /\ \A c \in collisions :
          detected[c[1]].physical /\ detected[c[2]].physical
    /\ \A k \in DOMAIN collCalls :
          \A n \in DOMAIN detected :
              detected[n].id = k[1] => detected[n].physical

\* C7: find_collisions never returns a pair in both orientations, returns
\* every intersecting pair of distinct physical entities in exactly one,
\* and returns N*(N-1)/2 pairs for N physical entities that all intersect
\* each other and are alone in the mapping.
C7_EachPairOnce ==
    pc = "collision_handlers" =>
        /\ \A c \in collisions : <<c[2], c[1]>> \notin collisions
        /\ \A m, o \in Physical(entities) :
              (m # o /\ intersects(entities[m], entities[o])) =>
                  (<<m, o>> \in collisions \/ <<o, m>> \in collisions)
        /\ LET N == Cardinality(DOMAIN entities) IN
           (/\ Physical(entities) = DOMAIN entities
            /\ \A m, o \in DOMAIN entities :
                  m # o => intersects(entities[m], entities[o]))
           => 2 * Cardinality(collisions) = N * (N - 1)

C7_ThreeMutual ==
    /\ pc = "collision_handlers"
    /\ Cardinality(DOMAIN entities) = 3
    /\ Physical(entities) = DOMAIN entities
    /\ \A m, o \in DOMAIN entities : m # o => intersects(entities[m], entities[o])
    /\ Cardinality(collisions) = 3

Leader(ents, f) == Unwrap(ents[f].follow_entity)

Follows(ents, f) ==
    /\ f \in DOMAIN ents
    /\ IsSome(ents[f].follow_entity)
    /\ Leader(ents, f) \in DOMAIN ents

\* C8: when animate() returns, every follower whose leader is in the
\* mapping has, on each axis with a follow offset, the leader's coordinate
\* plus the offset (through the setter), and on each axis without one the
\* coordinate it had when follower propagation began.
C8_FollowerAtLeaderPlusOffset ==
    pc = "done" =>
        \A f \in DOMAIN entities :
            Follows(entities, f) =>
                LET me == entities[f]
                    leader == entities[Leader(entities, f)]
                    off == me.follow_offset
                IN  /\ me.pos.x =
                          IF IsSome(off.x)
                          THEN set_x(me, Unwrap(off.x) + leader.pos.x, Width).pos.x
                          ELSE preFollow[f].pos.x
                    /\ me.pos.y =
                          IF IsSome(off.y)
                          THEN set_y(me, Unwrap(off.y) + leader.pos.y, Height).pos.y
                          ELSE preFollow[f].pos.y
                    /\ me.pos.z =
                          IF IsSome(off.z)
                          THEN set_z(me, Unwrap(off.z) + leader.pos.z).pos.z
                          ELSE preFollow[f].pos.z

\* C9: when animate() returns, in a chain where c follows b and b follows
\* a, both with an x offset, c's x is b's x at that moment plus c's offset.
C9_ChainUsesUpdatedLeader ==
    pc = "done" =>
        \A c \in DOMAIN entities :
            (/\ Follows(entities, c)
             /\ Follows(entities, Leader(entities, c))
             /\ Leader(entities, c) # c
             /\ IsSome(entities[c].follow_offset.x)
             /\ IsSome(entities[Leader(entities, c)].follow_offset.x))
            => entities[c].pos.x =
                  set_x(entities[c],
                        Unwrap(entities[c].follow_offset.x)
                            + entities[Leader(entities, c)].pos.x,
                        Width).pos.x

\* C10: between animate() calls physical_count is the number of physical
\* entities in the mapping.
C10_PhysicalCountExact ==
    pc \in {"idle", "done"} =>
        physical_count = Cardinality(Physical(entities))


\* C11: set_frame(j) on an entity of k frames never ends the process: for
\* j < k the current frame is j afterwards, for j >= k the call reports an
\* error and the current frame is what it was; the current frame is
\* always below the number of frames.
C11_SetFrameRecoverable ==
    /\ \A n \in DOMAIN entities : entities[n].current_frame < entities[n].frames
    /\ call.op = "set_frame" =>
          /\ pc # "panic"
          /\ \A n \in DOMAIN entities :
                entities[n].current_frame =
                    IF call.arg < entities[n].frames THEN call.arg ELSE call.before

\* C12: in animate(), the behaviour-callback pass never ends the process
\* when no entity has a die_time: whatever frame a callback returns, the
\* pass goes on to the remaining entities and animate() to its later stages.
C12_BadFrameNonFatal ==
    [][(pc = "do_callbacks" /\ \A n \in DOMAIN pulled : ~pulled[n].die_time)
          => pc' # "panic"]_vars

\* C13: after set_x(v, W) on an entity that wraps, x is in [0, W); after
\* set_y(v, H), y is in [0, H).
C13_WrapStaysOnCanvas ==
    \A n \in DOMAIN entities :
        entities[n].wrap =>
            /\ call.op = "set_x" =>
                  0 <= entities[n].pos.x /\ entities[n].pos.x < Width
            /\ call.op = "set_y" =>
                  0 <= entities[n].pos.y /\ entities[n].pos.y < Height

NoDeathCondition(e) ==
    ~IsSome(e.die_frame) /\ ~IsSome(e.die_entity) /\ ~e.die_offscreen /\ ~e.die_time

\* C14: when animate() returns, every entity that a closure added during
\* the call is in the mapping or was removed by death cleanup, and every
\* entity added at any time that has no death condition is in the mapping
\* (an entity replaced by a later add_entity of its name aside).
C14_AddedEntityStays ==
    pc = "done" =>
        \A id \in DOMAIN added :
            ~Superseded(id) =>
                /\ added[id].at = frameNo => Kept(id)
                /\ NoDeathCondition(added[id].ent) => Present(id)

\* C15: whenever a behaviour callback or a collision handler has run, the
\* scheduler it was given held every entity of the program but the one
\* (behaviour callback) or the two (collision handler) being processed.
C15_OthersReachable ==
    view.live \ view.visible \subseteq view.self

CbCalls(id) == IF id \in DOMAIN cbCalls THEN cbCalls[id] ELSE 0

\* C18: when animate() returns, the behaviour callback of every entity
\* that is still in the mapping has been invoked exactly once in that call
\* (not at all if the entity has none) and is attached as it was when the
\* entity was added; the callback of an entity that was marked dead and
\* removed has not been invoked in that call.
C18_CallbackOncePerFrame ==
    pc = "done" =>
        /\ \A n \in DOMAIN entities :
              /\ entities[n].callback = added[entities[n].id].ent.callback
              /\ CbCalls(entities[n].id) =
                    (IF added[entities[n].id].ent.callback THEN 1 ELSE 0)
        /\ \A r \in removed : CbCalls(r.id) = 0

C18_CalledAgainInSecondFrame ==
    /\ pc = "done"
    /\ frameNo = 2
    /\ \E n \in DOMAIN entities :
          /\ added[entities[n].id].at = 0
          /\ entities[n].callback
          /\ CbCalls(entities[n].id) = 1

\* C19: from the moment follower propagation begins until animate()
\* returns, every follower whose leader is not in the mapping is exactly
\* as it was when propagation began: position, current frame and leader
\* reference included.
C19_OrphanFollowerUntouched ==
    pc \in {"move_followers", "done"} =>
        \A f \in DOMAIN preFollow :
            (/\ IsSome(preFollow[f].follow_entity)
             /\ Unwrap(preFollow[f].follow_entity) \notin DOMAIN entities)
            => /\ f \in DOMAIN entities
               /\ entities[f] = preFollow[f]

C19_LeaderRemovedThisFrame ==
    /\ pc = "done"
    /\ \E f \in DOMAIN entities :
          /\ IsSome(entities[f].follow_entity)
          /\ IsSome(entities[f].follow_offset.x)
          /\ \E r \in removed : r.name = Unwrap(entities[f].follow_entity)
          /\ Unwrap(entities[f].follow_entity) \notin DOMAIN entities
          /\ entities[f] = preFollow[f]

\* C20: no step makes physical_count smaller, after every step it is at
\* least the number of physical entities in the mapping (and of those
\* do_callbacks has pulled out of it), and animate() never goes from the
\* behaviour-callback pass straight to death cleanup while the mapping
\* holds a physical entity.
C20_CollisionStageNotSkipped ==
    [][/\ physical_count' >= physical_count
       /\ physical_count' >= Cardinality(Physical(entities'))
       /\ physical_count' >= Cardinality(Physical(pulled'))
       /\ (pc = "do_callbacks" /\ pc' = "remove_deleted_entries")
             => Physical(entities') = {}]_vars

C20_StageRunsOnDriftedCount ==
    /\ pc = "find_collisions"
    /\ Physical(entities) # {}
    /\ physical_count > Cardinality(Physical(entities))

\* The cells of the half-open interval [coord, coord + extent).
Interval(coord, extent) == coord..(coord + extent - 1)

Overlap(c1, e1, c2, e2) == Interval(c1, e1) \cap Interval(c2, e2) # {}

BoxesOverlap(a, b) ==
    /\ Overlap(a.pos.x, a.height, b.pos.x, b.height)
    /\ Overlap(a.pos.y, a.width, b.pos.y, b.width)
    /\ Overlap(a.pos.z, a.depth, b.pos.z, b.depth)

\* C16: for extents >= 0, a.intersects(b) is true exactly when the
\* half-open intervals [coord, coord + extent) of a and b overlap on all
\* three axes (x with height, y with width, z with depth).
C16_IntersectsIsOverlap ==
    call.op = "intersects" =>
        (call.result <=> BoxesOverlap(entities["a"], entities["b"]))

\* b starts at or after a on an axis where a has a positive extent
Clears(a, from) ==
    \/ from.x >= a.pos.x /\ a.height > 0
    \/ from.y >= a.pos.y /\ a.width > 0
    \/ from.z >= a.pos.z /\ a.depth > 0

\* C17 as stated: when a and b intersect and b is moved by a's height on
\* x, a's width on y and a's depth on z, a and b do not intersect.
C17_TranslatedApart ==
    (call.op = "translate" /\ call.was) => ~call.now

\* C17 amended: when a and b intersect and b is moved so, a and b do not
\* intersect exactly if b started at or after a's coordinate on an axis
\* where a's extent is positive.
C17_TranslatedApartWhenNotBelow ==
    (call.op = "translate" /\ call.was) =>
        (~call.now <=> Clears(entities["a"], call.from))

C17_MovedPastTheFarEdge ==
    /\ call.op = "translate"
    /\ call.was /\ ~call.now
    /\ call.from.x > entities["a"].pos.x
    /\ entities["a"].height # entities["a"].width

=============================================================================
